---------------------------- MODULE Spec2Model ----------------------------
(***************************************************************************)
(* A model of the NLP stock screener: the keyword classifier and the       *)
(* screening engine of Nlp_stock.py and the fundamentals loader of         *)
(* scraper.py.                                                             *)
(*                                                                         *)
(* Text is modelled by TLA+ strings, which TLC treats as sequences of      *)
(* characters (Len, Head, Tail, SubSeq and \o work on them), so substring  *)
(* containment and lower-casing are computed character by character.       *)
(* An optional value (Python None or a number) is <<>> or <<v>>.           *)
(* REAL columns are held in hundredths: 1500 is 15.00.                     *)
(***************************************************************************)
EXTENDS Integers, Sequences, FiniteSets, TLC

VARIABLES
    user_query,            \* create_sql_query: its argument
    sql_query,             \* create_sql_query: its result, <<>> before the call
    conversation_history,  \* NLPStockScreener.conversation_history
    current_stocks,        \* NLPStockScreener.current_stocks
    call,                  \* the operation that ran last, as its caller saw it, and
                           \* the process_user_message calls returned since a clear
    stocks,                \* the rows of the stocks table of the database file
    sqlite_sequence,       \* the largest id the table ever handed out (AUTOINCREMENT)
    last_saved,            \* per symbol, the data of its latest successful save
    scrape,                \* the locals of a scrape_all_stocks run
    main_loop,             \* main of Nlp_stock.py: where its while loop stands
    chat_history           \* st.session_state.chat_history of the web page

vars == <<user_query, sql_query, conversation_history, current_stocks, call,
          stocks, sqlite_sequence, last_saved, scrape, main_loop, chat_history>>

engineVars == <<conversation_history, current_stocks, call>>
classifyVars == <<user_query, sql_query>>
storeVars == <<stocks, sqlite_sequence, last_saved>>
frontVars == <<main_loop, chat_history>>

(***************************************************************************)
(* Bounds of the model.                                                    *)
(***************************************************************************)
MaxFrags == 2
MaxTurns == 1
MaxPromptTurns == 6
MaxRows == 17
MaxSaves == 4
NumStocks == 3

None == <<>>
NoCall == [op |-> "none", turns_before |-> 0, stocks_before |-> 0, returned_calls |-> 0]
NoLoop == [pc |-> "none"]
Some(v) == <<v>>

(***************************************************************************)
(* Python str operations.                                                  *)
(***************************************************************************)
LowerChar(c) ==
    CASE c = "A" -> "a" [] c = "B" -> "b" [] c = "C" -> "c" [] c = "D" -> "d"
      [] c = "E" -> "e" [] c = "F" -> "f" [] c = "G" -> "g" [] c = "H" -> "h"
      [] c = "I" -> "i" [] c = "J" -> "j" [] c = "K" -> "k" [] c = "L" -> "l"
      [] c = "M" -> "m" [] c = "N" -> "n" [] c = "O" -> "o" [] c = "P" -> "p"
      [] c = "Q" -> "q" [] c = "R" -> "r" [] c = "S" -> "s" [] c = "T" -> "t"
      [] c = "U" -> "u" [] c = "V" -> "v" [] c = "W" -> "w" [] c = "X" -> "x"
      [] c = "Y" -> "y" [] c = "Z" -> "z" [] OTHER -> c

RECURSIVE lower(_)
lower(s) == IF s = "" THEN "" ELSE LowerChar(Head(s)) \o lower(Tail(s))

\* Python's `word in query` on two strings.
Contains(word, query) ==
    \E i \in 1..(Len(query) - Len(word) + 1) :
        SubSeq(query, i, i + Len(word) - 1) = word

\* any(word in query for word in words)
AnyWordIn(words, query) == \E k \in 1..Len(words) : Contains(words[k], query)

(***************************************************************************)
(* The six query templates.  A template is the meaning of its SQL text:    *)
(* the conjuncts of WHERE as <<column, comparison, threshold>>, the ORDER  *)
(* BY column and direction, and the LIMIT.                                 *)
(***************************************************************************)
ValueTemplate ==
    [where |-> << <<"pe_ratio", "<", 1500>>, <<"pb_ratio", "<", 200>>,
                  <<"roe", ">", 1000>> >>,
     order_by |-> "pe_ratio", direction |-> "ASC", limit |-> 15]

GrowthTemplate ==
    [where |-> << <<"revenue_growth", ">", 1500>>, <<"roe", ">", 2000>> >>,
     order_by |-> "revenue_growth", direction |-> "DESC", limit |-> 15]

DividendTemplate ==
    [where |-> << <<"dividend_yield", ">", 200>> >>,
     order_by |-> "dividend_yield", direction |-> "DESC", limit |-> 15]

SafeTemplate ==
    [where |-> << <<"debt_to_equity", "<", 50>>, <<"current_ratio", ">", 150>>,
                  <<"roe", ">", 1000>> >>,
     order_by |-> "debt_to_equity", direction |-> "ASC", limit |-> 15]

LargeCapTemplate ==
    [where |-> << <<"market_cap", ">", 5000000>> >>,
     order_by |-> "market_cap", direction |-> "DESC", limit |-> 15]

DefaultTemplate ==
    [where |-> << <<"roe", ">", 1500>>, <<"pe_ratio", "<", 3000>>,
                  <<"debt_to_equity", "<", 100>> >>,
     order_by |-> "roe", direction |-> "DESC", limit |-> 15]

\* A plausible slip: the growth branch tested before the value branch.
create_sql_query_growth_first(q) ==
    LET query == lower(q) IN
    IF AnyWordIn(<<"growth", "growing", "high growth">>, query) THEN GrowthTemplate
    ELSE IF AnyWordIn(<<"value", "cheap", "undervalued">>, query) THEN ValueTemplate
    ELSE IF AnyWordIn(<<"dividend", "income", "yield">>, query) THEN DividendTemplate
    ELSE IF AnyWordIn(<<"safe", "stable", "low risk">>, query) THEN SafeTemplate
    ELSE IF AnyWordIn(<<"large cap", "big", "large">>, query) THEN LargeCapTemplate
    ELSE DefaultTemplate

create_sql_query(q) ==
    LET query == lower(q) IN
    IF AnyWordIn(<<"value", "cheap", "undervalued">>, query) THEN ValueTemplate
    ELSE IF AnyWordIn(<<"growth", "growing", "high growth">>, query) THEN GrowthTemplate
    ELSE IF AnyWordIn(<<"dividend", "income", "yield">>, query) THEN DividendTemplate
    ELSE IF AnyWordIn(<<"safe", "stable", "low risk">>, query) THEN SafeTemplate
    ELSE IF AnyWordIn(<<"large cap", "big", "large">>, query) THEN LargeCapTemplate
    ELSE DefaultTemplate

(***************************************************************************)
(* Messages for the classifier: every concatenation of at most MaxFrags    *)
(* fragments.  The fragments spell the keywords whole, in pieces, inside   *)
(* longer words and in upper case.                                         *)
(***************************************************************************)
Fragments ==
    {"value", "Cheap", "under", "valued", "growth", "GROWING", "high ",
     "dividend", "income", "Yield", "safe", "un", "stable", "low", " risk",
     "large", " cap", "big", "ger", " ", "find ", "stocks", "joke", "val", "ue"}

RECURSIVE Concats(_)
Concats(n) ==
    IF n = 0 THEN {""}
    ELSE LET shorter == Concats(n - 1) IN
         shorter \cup {s \o f : s \in shorter, f \in Fragments}

ClassifyInputs == Concats(MaxFrags)

ClassifyInit ==
    /\ user_query \in ClassifyInputs
    /\ sql_query = None
    /\ conversation_history = <<>>
    /\ current_stocks = <<>>
    /\ call = NoCall
    /\ stocks = {}
    /\ sqlite_sequence = 0
    /\ last_saved = <<>>
    /\ scrape = [pc |-> "idle"]
    /\ main_loop = NoLoop
    /\ chat_history = <<>>

Classify ==
    /\ sql_query = None
    /\ sql_query' = Some(create_sql_query(user_query))
    /\ UNCHANGED <<user_query, engineVars, storeVars, scrape, frontVars>>

ClassifyNext == Classify

ClassifySpec == ClassifyInit /\ [][ClassifyNext]_vars

(***************************************************************************)
(* C1.  create_sql_query returns the template of the first keyword group,  *)
(* in the order value, growth, dividend, safety, large-cap, that has a     *)
(* keyword occurring in the lower-cased message, and it returns the        *)
(* default quality template exactly when no keyword of any group occurs.   *)
(* The five groups and the six templates are restated here from the        *)
(* requirement, apart from the definitions that model the code.            *)
(***************************************************************************)
C1_Groups ==
    <<[keywords |-> {"value", "cheap", "undervalued"},
       filter |-> {<<"pe_ratio", "<", 1500>>, <<"pb_ratio", "<", 200>>, <<"roe", ">", 1000>>},
       order_by |-> "pe_ratio", direction |-> "ASC"],
      [keywords |-> {"growth", "growing", "high growth"},
       filter |-> {<<"revenue_growth", ">", 1500>>, <<"roe", ">", 2000>>},
       order_by |-> "revenue_growth", direction |-> "DESC"],
      [keywords |-> {"dividend", "income", "yield"},
       filter |-> {<<"dividend_yield", ">", 200>>},
       order_by |-> "dividend_yield", direction |-> "DESC"],
      [keywords |-> {"safe", "stable", "low risk"},
       filter |-> {<<"debt_to_equity", "<", 50>>, <<"current_ratio", ">", 150>>,
                   <<"roe", ">", 1000>>},
       order_by |-> "debt_to_equity", direction |-> "ASC"],
      [keywords |-> {"large cap", "big", "large"},
       filter |-> {<<"market_cap", ">", 5000000>>},
       order_by |-> "market_cap", direction |-> "DESC"]>>

C1_Quality ==
    [keywords |-> {},
     filter |-> {<<"roe", ">", 1500>>, <<"pe_ratio", "<", 3000>>,
                 <<"debt_to_equity", "<", 100>>},
     order_by |-> "roe", direction |-> "DESC"]

C1_Is(tpl, g) ==
    /\ {tpl.where[k] : k \in 1..Len(tpl.where)} = g.filter
    /\ tpl.order_by = g.order_by
    /\ tpl.direction = g.direction
    /\ tpl.limit = 15

C1_Hits(message) ==
    {g \in 1..5 : \E w \in C1_Groups[g].keywords : Contains(w, lower(message))}

C1_FirstGroupWins ==
    sql_query # None =>
        LET hits == C1_Hits(user_query)
            first == CHOOSE g \in hits : \A h \in hits : g <= h
        IN  /\ hits # {} => C1_Is(sql_query[1], C1_Groups[first])
            /\ C1_Is(sql_query[1], C1_Quality) <=> hits = {}

\* A message with keywords of two groups, the later group's keyword first.
C1_Witness ==
    /\ sql_query # None
    /\ Cardinality(C1_Hits(user_query)) >= 2
    /\ user_query = "growthvalue"

(***************************************************************************)
(* The stocks table as the engine finds it.  A row is the mapping of       *)
(* SELECT *: every column of CREATE TABLE, id and last_updated included.   *)
(* The sample store holds n rows whose metrics are spread so that every    *)
(* template selects some rows and rejects others, some columns are NULL,   *)
(* and the large-cap template selects more rows than its LIMIT.            *)
(***************************************************************************)
SampleSymbols ==
    <<"RELIANCE.NS", "TCS.NS", "HDFCBANK.NS", "ICICIBANK.NS", "INFY.NS",
      "ITC.NS", "LT.NS", "AXISBANK.NS", "KOTAKBANK.NS", "SBIN.NS",
      "BHARTIARTL.NS", "HINDUNILVR.NS", "BAJFINANCE.NS", "ASIANPAINT.NS",
      "HCLTECH.NS", "SUNPHARMA.NS", "ULTRACEMCO.NS", "MARUTI.NS", "TITAN.NS",
      "WIPRO.NS">>

SampleRow(i) ==
    [id |-> i,
     symbol |-> SampleSymbols[i],
     name |-> SampleSymbols[i] \o " Limited",
     sector |-> IF i % 3 = 0 THEN "Energy" ELSE IF i % 3 = 1 THEN "Technology" ELSE "",
     industry |-> "",
     market_cap |-> IF i = 4 THEN None ELSE Some(6000000 + 100000 * i),
     pe_ratio |-> IF i % 5 = 0 THEN None ELSE Some((4 + 2 * i) * 100),
     pb_ratio |-> Some(50 + 20 * i),
     roe |-> IF i % 7 = 0 THEN None ELSE Some((8 + 2 * i) * 100),
     debt_to_equity |-> Some(10 * i),
     current_ratio |-> Some(100 + 10 * i),
     revenue_growth |-> Some((300 * i) % 2500),
     net_profit_margin |-> Some(500 + 100 * i),
     dividend_yield |-> Some((i % 4) * 100),
     price |-> Some(10000 + i),
     volume |-> Some(1000 * i),
     last_updated |-> 0]

SampleStore(n) == {SampleRow(i) : i \in 1..n}

(***************************************************************************)
(* search_stocks: run the template of the message on the table.  A NULL    *)
(* never satisfies a comparison.  SQL leaves the order of rows with equal  *)
(* ORDER BY keys open, so the result is one of a set of sequences.  A      *)
(* failing query (db_ok false) is caught and gives [].                     *)
(***************************************************************************)
\* A plausible slip: the thresholds taken as inclusive.
Satisfies_inclusive(row, cond) ==
    LET v == row[cond[1]] IN
    /\ v # None
    /\ IF cond[2] = "<" THEN v[1] <= cond[3] ELSE v[1] >= cond[3]

Satisfies(row, cond) ==
    LET v == row[cond[1]] IN
    /\ v # None
    /\ IF cond[2] = "<" THEN v[1] < cond[3] ELSE v[1] > cond[3]

Selected(rows, tpl) ==
    {r \in rows : \A k \in 1..Len(tpl.where) : Satisfies(r, tpl.where[k])}

Before(a, b, tpl) ==
    IF tpl.direction = "ASC" THEN a[tpl.order_by][1] < b[tpl.order_by][1]
    ELSE a[tpl.order_by][1] > b[tpl.order_by][1]

RECURSIVE Orderings(_, _)
Orderings(rows, tpl) ==
    IF rows = {} THEN {<<>>}
    ELSE UNION {{<<r>> \o rest : rest \in Orderings(rows \ {r}, tpl)} :
                r \in {x \in rows : \A y \in rows : ~Before(y, x, tpl)}}

\* A plausible slip: the LIMIT left out of the query.
Limit_left_out(s, n) == s

Limit(s, n) == SubSeq(s, 1, IF Len(s) < n THEN Len(s) ELSE n)

search_stocks(user_query_, db_ok) ==
    IF ~db_ok THEN {<<>>}
    ELSE LET tpl == create_sql_query(user_query_) IN
         {Limit(s, tpl.limit) : s \in Orderings(Selected(stocks, tpl), tpl)}

(***************************************************************************)
(* create_ai_prompt.  The prompt is the sequence of the pieces the code    *)
(* concatenates: a piece is its fixed text and the values formatted into   *)
(* it.  One "stock" piece is the five lines written for one row.           *)
(***************************************************************************)
\* A plausible slip: the whole history written, not its last four turns.
PromptTurns_whole_history(history) ==
    [k \in 1..(2 * Len(history)) |->
        IF k % 2 = 1 THEN [line |-> "User: ", text |-> history[(k + 1) \div 2].user]
        ELSE [line |-> "You: ", text |-> history[k \div 2].assistant]]

PromptTurns(history) ==
    LET n == Len(history)
        last4 == SubSeq(history, IF n > 4 THEN n - 3 ELSE 1, n)
        Piece(k) == IF k % 2 = 1
                    THEN [line |-> "User: ", text |-> last4[(k + 1) \div 2].user]
                    ELSE [line |-> "You: ", text |-> last4[k \div 2].assistant]
    IN  [k \in 1..(2 * Len(last4)) |-> Piece(k)]

\* A plausible slip: the cap of show_current_stocks, ten, used for the prompt.
PromptStocks_first_ten(stock_data) ==
    LET shown == SubSeq(stock_data, 1, IF Len(stock_data) < 10 THEN Len(stock_data) ELSE 10)
    IN  [k \in 1..Len(shown) |->
            [line |-> "stock", n |-> k, name |-> shown[k].name,
             symbol |-> shown[k].symbol, sector |-> shown[k].sector,
             pe_ratio |-> shown[k].pe_ratio, roe |-> shown[k].roe,
             market_cap |-> shown[k].market_cap]]

PromptStocks(stock_data) ==
    LET shown == SubSeq(stock_data, 1, IF Len(stock_data) < 8 THEN Len(stock_data) ELSE 8)
    IN  [k \in 1..Len(shown) |->
            [line |-> "stock", n |-> k, name |-> shown[k].name,
             symbol |-> shown[k].symbol, sector |-> shown[k].sector,
             pe_ratio |-> shown[k].pe_ratio, roe |-> shown[k].roe,
             market_cap |-> shown[k].market_cap]]

create_ai_prompt(user_message, stock_data, history) ==
    <<[line |-> "system_prompt"]>>
    \o (IF history # <<>>
        THEN <<[line |-> "Previous conversation:"]>> \o PromptTurns(history)
        ELSE <<>>)
    \o (IF stock_data # <<>>
        THEN <<[line |-> "Here are the stocks I found in the database:"]>>
             \o PromptStocks(stock_data)
        ELSE <<>>)
    \o <<[line |-> "User's current question: ", text |-> user_message],
         [line |-> "Please respond conversationally and recommend specific stocks with reasons."]>>

(***************************************************************************)
(* get_ai_response.  The hosted model answers with a text, answers with a  *)
(* response that carries no text (response.text is None), or the call      *)
(* raises.  The result is [is_str, str]: a Python str, or None.            *)
(***************************************************************************)
AIText(t) == [kind |-> "text", text |-> t, error |-> ""]
AIError(e) == [kind |-> "error", text |-> "", error |-> e]
AINoText == [kind |-> "no_text", text |-> "", error |-> ""]

AIOutcomes ==
    {AIText("ITC looks solid. Consider it!"), AIError("429 RESOURCE_EXHAUSTED"),
     AINoText}

\* A plausible slip: the handler logs the error and returns nothing.
get_ai_response_returns_none(ai) ==
    IF ai.kind = "text" THEN [is_str |-> TRUE, str |-> ai.text]
    ELSE [is_str |-> FALSE, str |-> ""]

get_ai_response(ai) ==
    IF ai.kind = "error"
    THEN [is_str |-> TRUE, str |-> "Sorry, I encountered an error: " \o ai.error]
    ELSE IF ai.kind = "text" THEN [is_str |-> TRUE, str |-> ai.text]
    ELSE [is_str |-> FALSE, str |-> ""]

\* simulate_typing: re.split raises TypeError on None, and prints a str.
simulate_typing_raises(response) == ~response.is_str

(***************************************************************************)
(* process_user_message and clear_conversation.                            *)
(***************************************************************************)
\* A plausible slip: the keywords looked for in the message as typed.
needs_stock_data_case_sensitive(user_message) ==
    AnyWordIn(<<"find", "show", "recommend", "suggest", "good", "best", "stocks",
                "companies", "investment", "buy", "portfolio">>,
              user_message)

needs_stock_data(user_message) ==
    AnyWordIn(<<"find", "show", "recommend", "suggest", "good", "best", "stocks",
                "companies", "investment", "buy", "portfolio">>,
              lower(user_message))

\* A plausible slip: the assignment written outside the if.
lookup_current_stocks_always(needs, stock_data, old) == stock_data

\* A plausible slip: the result set replaced only by a lookup that found rows.
lookup_current_stocks_unless_empty(needs, stock_data, old) ==
    IF needs /\ stock_data # <<>> THEN stock_data ELSE old

\* self.current_stocks after the lookup step of lines 216-221
lookup_current_stocks(needs, stock_data, old) ==
    IF needs THEN stock_data ELSE old

\* A plausible slip: the history cut to the four turns the prompt uses.
append_turn_last_four(history, user_message, response) ==
    IF simulate_typing_raises(response) THEN history
    ELSE LET all == Append(history, [user |-> user_message, assistant |-> response.str])
         IN  SubSeq(all, IF Len(all) > 4 THEN Len(all) - 3 ELSE 1, Len(all))

\* conversation_history after lines 232-238
append_turn(history, user_message, response) ==
    IF simulate_typing_raises(response) THEN history
    ELSE Append(history, [user |-> user_message, assistant |-> response.str])

process_user_message(user_message, outcomes) ==
    LET needs == needs_stock_data(user_message)
        found == search_stocks(user_message, TRUE)
        failed == search_stocks(user_message, FALSE)
        results == IF needs
                   THEN {[db_failed |-> FALSE, rows |-> x] : x \in found} \cup
                        {[db_failed |-> TRUE, rows |-> x] : x \in failed}
                   ELSE {[db_failed |-> FALSE, rows |-> <<>>]}
    IN
    \E result \in results, ai \in outcomes :
        LET stock_data == result.rows
            prompt == create_ai_prompt(user_message, stock_data, conversation_history)
            response == get_ai_response(ai)
        IN  /\ current_stocks' = lookup_current_stocks(needs, stock_data, current_stocks)
            /\ conversation_history' =
                   append_turn(conversation_history, user_message, response)
            /\ call' = [op |-> "process_user_message",
                        user_message |-> user_message,
                        searched |-> needs,
                        db_failed |-> result.db_failed,
                        stock_data |-> stock_data,
                        prompt |-> prompt,
                        ai |-> ai,
                        ai_response |-> response,
                        returned |-> ~simulate_typing_raises(response),
                        returned_calls |-> IF simulate_typing_raises(response)
                                           THEN call.returned_calls
                                           ELSE call.returned_calls + 1,
                        response |-> response.str,
                        prev_op |-> call.op,
                        prev_turns |-> call.turns_before,
                        turns_before |-> Len(conversation_history),
                        stocks_before |-> Len(current_stocks)]
            /\ UNCHANGED <<classifyVars, storeVars, scrape>>

\* A plausible slip: only the history emptied.
clear_conversation_keeps_stocks ==
    /\ conversation_history' = <<>>
    /\ current_stocks' = current_stocks
    /\ call' = [op |-> "clear_conversation",
                returned_calls |-> 0,
                turns_before |-> Len(conversation_history),
                stocks_before |-> Len(current_stocks)]
    /\ UNCHANGED <<classifyVars, storeVars, scrape>>

clear_conversation ==
    /\ conversation_history' = <<>>
    /\ current_stocks' = <<>>
    /\ call' = [op |-> "clear_conversation",
                returned_calls |-> 0,
                turns_before |-> Len(conversation_history),
                stocks_before |-> Len(current_stocks)]
    /\ UNCHANGED <<classifyVars, storeVars, scrape>>

(***************************************************************************)
(* The engine driven by a caller that keeps no state of its own (main and  *)
(* the web page are further down): any message, any query and model        *)
(* outcome, at any time a clear.  MaxTurns bounds the history a message    *)
(* is processed with.  The store is the sample store of MaxRows rows.      *)
(***************************************************************************)
EngineMessages ==
    {"Find cheap undervalued stocks", "show big companies", "find safe stocks",
     "what about safe ones", "BUY"}

EngineInit ==
    /\ user_query = ""
    /\ sql_query = None
    /\ conversation_history = <<>>
    /\ current_stocks = <<>>
    /\ call = NoCall
    /\ stocks = SampleStore(MaxRows)
    /\ sqlite_sequence = MaxRows
    /\ last_saved = <<>>
    /\ scrape = [pc |-> "idle"]
    /\ main_loop = NoLoop
    /\ chat_history = <<>>

Init == EngineInit

Next ==
    \/ \E m \in EngineMessages :
           /\ Len(conversation_history) <= MaxTurns
           /\ process_user_message(m, AIOutcomes)
           /\ UNCHANGED frontVars
    \/ clear_conversation /\ UNCHANGED frontVars

Spec == Init /\ [][Next]_vars

(***************************************************************************)
(* The same engine with one message for each trigger word alone, the       *)
(* model always answering.                                                 *)
(***************************************************************************)
TriggerMessages ==
    EngineMessages \cup
    {"recommend", "any suggestions", "good", "the best", "investment",
     "my portfolio", "Stocks", "companies", "shown", "tell me a joke"}

TriggerNext ==
    \/ \E m \in TriggerMessages :
           /\ Len(conversation_history) <= MaxTurns
           /\ process_user_message(m, {AIText("ITC looks solid. Consider it!")})
           /\ UNCHANGED frontVars
    \/ clear_conversation /\ UNCHANGED frontVars

TriggerSpec == Init /\ [][TriggerNext]_vars

(***************************************************************************)
(* The same engine with two messages and a history of up to                *)
(* MaxPromptTurns turns before a message.                                  *)
(***************************************************************************)
PromptMessages == {"best?", "and now?"}

PromptNext ==
    \/ \E m \in PromptMessages :
           /\ Len(conversation_history) <= MaxPromptTurns
           /\ process_user_message(m, {AIText("Try TCS."), AIError("timeout")})
           /\ UNCHANGED frontVars
    \/ clear_conversation /\ UNCHANGED frontVars

PromptSpec == Init /\ [][PromptNext]_vars

(***************************************************************************)
(* What the engine claims say, restated apart from the model of the code.  *)
(***************************************************************************)
LookupTriggers ==
    {"find", "show", "recommend", "suggest", "good", "best", "stocks",
     "companies", "investment", "buy", "portfolio"}

HasLookupTrigger(message) ==
    \E w \in LookupTriggers : Contains(w, lower(message))

HasLine(prompt, text) == \E j \in 1..Len(prompt) : prompt[j].line = text

IsTurnLine(piece) == piece.line \in {"User: ", "You: "}
IsStockLine(piece) == piece.line = "stock"

\* The section under the header `text`: the pieces right after it whose line
\* is one of `kinds`, up to the first piece of another kind.
Section(prompt, text, kinds) ==
    IF ~HasLine(prompt, text) THEN <<>>
    ELSE LET j == 1 + CHOOSE h \in 1..Len(prompt) : prompt[h].line = text
             run == CHOOSE L \in 0..(Len(prompt) - j + 1) :
                        /\ \A i \in j..(j + L - 1) : prompt[i].line \in kinds
                        /\ j + L > Len(prompt) \/ prompt[j + L].line \notin kinds
         IN  SubSeq(prompt, j, j + run - 1)

(***************************************************************************)
(* C3.  process_user_message runs the database lookup if and only if the   *)
(* lower-cased message contains one of the 11 trigger words, and when the  *)
(* lookup runs current_stocks after the call is that lookup's result, an   *)
(* empty result included.                                                  *)
(***************************************************************************)
C3_LookupIffTrigger ==
    call.op = "process_user_message" =>
        /\ call.searched <=> HasLookupTrigger(call.user_message)
        /\ call.searched => current_stocks = call.stock_data

\* A lookup that found nothing replaced a result set that held rows.
C3_Witness ==
    /\ call.op = "process_user_message"
    /\ call.searched
    /\ call.stock_data = <<>>
    /\ call.stocks_before > 0
    /\ current_stocks = <<>>

(***************************************************************************)
(* C4.  A message with none of the trigger words leaves current_stocks as  *)
(* it was before the call, whatever the AI call returns.                   *)
(***************************************************************************)
C4_NoTriggerKeepsStocks ==
    [][(/\ call'.op = "process_user_message"
        /\ ~HasLookupTrigger(call'.user_message))
       => current_stocks' = current_stocks]_vars

\* A message without a trigger word was processed while rows were loaded.
C4_Witness ==
    /\ call.op = "process_user_message"
    /\ ~HasLookupTrigger(call.user_message)
    /\ call.stocks_before > 0
    /\ Len(current_stocks) = call.stocks_before

(***************************************************************************)
(* C5.  With n turns of history the prompt has a previous-conversation     *)
(* section if and only if n >= 1, and the section is the last min(n, 4)    *)
(* turns in their order, each as its user line then its assistant line.    *)
(***************************************************************************)
C5_LastFourTurns ==
    [][call'.op = "process_user_message" =>
        LET n == Len(conversation_history)
            k == IF n < 4 THEN n ELSE 4
            prompt == call'.prompt
            section == Section(prompt, "Previous conversation:", {"User: ", "You: "})
        IN  /\ HasLine(prompt, "Previous conversation:") <=> n >= 1
            /\ Len(SelectSeq(prompt, IsTurnLine)) = 2 * k
            /\ Len(section) = 2 * k
            /\ \A j \in 1..k :
                   /\ section[2 * j - 1] =
                          [line |-> "User: ", text |-> conversation_history[n - k + j].user]
                   /\ section[2 * j] =
                          [line |-> "You: ",
                           text |-> conversation_history[n - k + j].assistant]]_vars

\* A message processed with six turns of history.
C5_Witness ==
    /\ call.op = "process_user_message"
    /\ call.turns_before = 6
    /\ HasLine(call.prompt, "Previous conversation:")

(***************************************************************************)
(* C6.  The prompt has a stocks-found section if and only if this          *)
(* message's own lookup returned a row, and the section is the first       *)
(* min(k, 8) rows of that k-row result in result order; no row appears in  *)
(* the prompt of a message without a lookup or with an empty lookup.       *)
(***************************************************************************)
C6_StocksOfThisLookup ==
    call.op = "process_user_message" =>
        LET k == IF call.searched THEN Len(call.stock_data) ELSE 0
            shown == IF k < 8 THEN k ELSE 8
            prompt == call.prompt
            header == "Here are the stocks I found in the database:"
            section == Section(prompt, header, {"stock"})
        IN  /\ HasLine(prompt, header) <=> k >= 1
            /\ Len(SelectSeq(prompt, IsStockLine)) = shown
            /\ Len(section) = shown
            /\ \A j \in 1..shown :
                   section[j] =
                       [line |-> "stock", n |-> j,
                        name |-> call.stock_data[j].name,
                        symbol |-> call.stock_data[j].symbol,
                        sector |-> call.stock_data[j].sector,
                        pe_ratio |-> call.stock_data[j].pe_ratio,
                        roe |-> call.stock_data[j].roe,
                        market_cap |-> call.stock_data[j].market_cap]

\* A lookup that returned more rows than the prompt shows.
C6_Witness ==
    /\ call.op = "process_user_message"
    /\ call.searched
    /\ Len(call.stock_data) > 8

(***************************************************************************)
(* C7.  When the AI invocation raises, the call still returns a non-empty  *)
(* apology that embeds the error text, and exactly one turn, the message   *)
(* and that apology, is appended to the history.                           *)
(***************************************************************************)
C7_ErrorStillAnswers ==
    [][(call'.op = "process_user_message" /\ call'.ai.kind = "error") =>
        /\ call'.returned
        /\ call'.response # ""
        /\ Contains("Sorry", call'.response)
        /\ Contains(call'.ai.error, call'.response)
        /\ conversation_history' =
               Append(conversation_history,
                      [user |-> call'.user_message, assistant |-> call'.response])]_vars

\* The model call raised during a message processed after an earlier turn.
C7_Witness ==
    /\ call.op = "process_user_message"
    /\ call.ai.kind = "error"
    /\ call.turns_before = 1
    /\ Len(conversation_history) = 2

(***************************************************************************)
(* C8.  After clear_conversation the history and current_stocks are both   *)
(* empty, and the prompt of the next message has no previous-conversation  *)
(* section.                                                                *)
(***************************************************************************)
C8_ClearEmptiesBoth ==
    [][/\ call'.op = "clear_conversation" =>
              conversation_history' = <<>> /\ current_stocks' = <<>>
       /\ (call.op = "clear_conversation" /\ call'.op = "process_user_message") =>
              ~HasLine(call'.prompt, "Previous conversation:")]_vars

\* The message right after a clear that dropped at least one turn.
C8_Witness ==
    /\ call.op = "process_user_message"
    /\ call.prev_op = "clear_conversation"
    /\ call.prev_turns >= 1

(***************************************************************************)
(* The fundamentals loader.  The symbol universe is the hard-coded list;   *)
(* the model keeps its first NumStocks entries of a sub-list that keeps    *)
(* the list's order and its one repeated symbol (NTPC.NS is listed twice). *)
(***************************************************************************)
nse_stocks ==
    SubSeq(<<"NTPC.NS", "NHPC.NS", "NTPC.NS", "SJVN.NS", "TATAPOWER.NS",
             "JSWENERGY.NS", "POLYCAB.NS", "KEI.NS">>, 1, NumStocks)

DefaultCount == 200
max_retries == 3

get_nse_top_stocks(count) ==
    SubSeq(nse_stocks, 1, IF count < Len(nse_stocks) THEN count ELSE Len(nse_stocks))

(***************************************************************************)
(* What the market-data provider answers for a symbol: it raises, or it    *)
(* gives an info bundle in which any key may be missing (None).  Numbers   *)
(* are in hundredths, so a returnOnEquity of 18 is the fraction 0.18.      *)
(***************************************************************************)
ProviderRaises == [raises |-> TRUE]

InfoFull ==
    [raises |-> FALSE,
     longName |-> Some("Power Company Limited"), sector |-> Some("Utilities"),
     industry |-> Some("Utilities - Regulated"),
     marketCap |-> Some(700000000), forwardPE |-> Some(1200), trailingPE |-> Some(1400),
     priceToBook |-> Some(150), returnOnEquity |-> Some(18), debtToEquity |-> Some(40),
     currentRatio |-> Some(160), revenueGrowth |-> Some(7), profitMargins |-> Some(12),
     dividendYield |-> Some(0), currentPrice |-> Some(30000),
     regularMarketPrice |-> Some(29900), volume |-> Some(5000)]

InfoSparse ==
    [raises |-> FALSE,
     longName |-> None, sector |-> Some("Energy"), industry |-> None,
     marketCap |-> None, forwardPE |-> None, trailingPE |-> Some(2100),
     priceToBook |-> Some(90), returnOnEquity |-> None, debtToEquity |-> Some(120),
     currentRatio |-> None, revenueGrowth |-> Some(0), profitMargins |-> Some(25),
     dividendYield |-> Some(3), currentPrice |-> Some(0),
     regularMarketPrice |-> Some(8800), volume |-> None]

ProviderAnswers == {ProviderRaises, InfoFull, InfoSparse}

\* Python truthiness of None-or-number, `a or b`, and info.get(key, '')
Truthy(v) == v # None /\ v[1] # 0
Or(a, b) == IF Truthy(a) THEN a ELSE b
GetText(v) == IF v = None THEN "" ELSE v[1]

\* A plausible slip: the fraction stored as it came.
ToPercent_unscaled(v) == v

\* if stock_data[k]: stock_data[k] *= 100
ToPercent(v) == IF Truthy(v) THEN Some(v[1] * 100) ELSE v

\* A plausible slip: the handler returns a record of the symbol without values.
fetch_stock_data_yfinance_nulls(symbol, info) ==
    IF info.raises
    THEN Some([symbol |-> symbol, name |-> "", sector |-> "", industry |-> "",
               market_cap |-> None, pe_ratio |-> None, pb_ratio |-> None, roe |-> None,
               debt_to_equity |-> None, current_ratio |-> None,
               revenue_growth |-> None, net_profit_margin |-> None,
               dividend_yield |-> None, price |-> None, volume |-> None])
    ELSE Some([symbol |-> symbol,
               name |-> GetText(info.longName),
               sector |-> GetText(info.sector),
               industry |-> GetText(info.industry),
               market_cap |-> info.marketCap,
               pe_ratio |-> Or(info.forwardPE, info.trailingPE),
               pb_ratio |-> info.priceToBook,
               roe |-> ToPercent(info.returnOnEquity),
               debt_to_equity |-> info.debtToEquity,
               current_ratio |-> info.currentRatio,
               revenue_growth |-> ToPercent(info.revenueGrowth),
               net_profit_margin |-> ToPercent(info.profitMargins),
               dividend_yield |-> ToPercent(info.dividendYield),
               price |-> Or(info.currentPrice, info.regularMarketPrice),
               volume |-> info.volume])

\* None, or Some(the stock_data dict)
fetch_stock_data_yfinance(symbol, info) ==
    IF info.raises THEN None
    ELSE Some([symbol |-> symbol,
               name |-> GetText(info.longName),
               sector |-> GetText(info.sector),
               industry |-> GetText(info.industry),
               market_cap |-> info.marketCap,
               pe_ratio |-> Or(info.forwardPE, info.trailingPE),
               pb_ratio |-> info.priceToBook,
               roe |-> ToPercent(info.returnOnEquity),
               debt_to_equity |-> info.debtToEquity,
               current_ratio |-> info.currentRatio,
               revenue_growth |-> ToPercent(info.revenueGrowth),
               net_profit_margin |-> ToPercent(info.profitMargins),
               dividend_yield |-> ToPercent(info.dividendYield),
               price |-> Or(info.currentPrice, info.regularMarketPrice),
               volume |-> info.volume])

(***************************************************************************)
(* save_to_database.  The database answers a call in one of three ways:    *)
(* "ok"; "connect_raises", sqlite3.connect fails, outside the try, and the *)
(* error leaves the function; "write_fails", execute or commit fails, the  *)
(* error is caught, nothing is committed and False is returned.            *)
(* INSERT OR REPLACE deletes the row that holds the symbol, which is       *)
(* UNIQUE, and inserts a new row: a new id from AUTOINCREMENT, the fifteen *)
(* values given, and last_updated from its default, modelled by the        *)
(* ordinal of the write.                                                   *)
(***************************************************************************)
DatabaseAnswers == {"ok", "connect_raises", "write_fails"}

NewRow(id, d) ==
    [id |-> id, symbol |-> d.symbol, name |-> d.name, sector |-> d.sector,
     industry |-> d.industry, market_cap |-> d.market_cap, pe_ratio |-> d.pe_ratio,
     pb_ratio |-> d.pb_ratio, roe |-> d.roe, debt_to_equity |-> d.debt_to_equity,
     current_ratio |-> d.current_ratio, revenue_growth |-> d.revenue_growth,
     net_profit_margin |-> d.net_profit_margin, dividend_yield |-> d.dividend_yield,
     price |-> d.price, volume |-> d.volume, last_updated |-> id]

\* A plausible slip: INSERT OR IGNORE, which keeps the row already there.
insert_or_replace_ignores(rows, seq, d) ==
    IF \E r \in rows : r.symbol = d.symbol THEN rows
    ELSE rows \cup {NewRow(seq + 1, d)}

insert_or_replace(rows, seq, d) ==
    {r \in rows : r.symbol # d.symbol} \cup {NewRow(seq + 1, d)}

\* [raised, returned, stocks, sqlite_sequence] of one call
save_to_database(stock_data, answer) ==
    IF stock_data = None
    THEN [raised |-> FALSE, returned |-> FALSE,
          stocks |-> stocks, sqlite_sequence |-> sqlite_sequence]
    ELSE IF answer = "connect_raises"
    THEN [raised |-> TRUE, returned |-> FALSE,
          stocks |-> stocks, sqlite_sequence |-> sqlite_sequence]
    ELSE IF answer = "write_fails"
    THEN [raised |-> FALSE, returned |-> FALSE,
          stocks |-> stocks, sqlite_sequence |-> sqlite_sequence]
    ELSE [raised |-> FALSE, returned |-> TRUE,
          stocks |-> insert_or_replace(stocks, sqlite_sequence, stock_data[1]),
          sqlite_sequence |-> sqlite_sequence + 1]

\* last_saved after a call: the data of the latest save that returned True
Remember(stock_data, saved) ==
    IF ~saved.returned THEN last_saved
    ELSE [s \in DOMAIN last_saved \cup {stock_data[1].symbol} |->
             IF s = stock_data[1].symbol THEN stock_data[1] ELSE last_saved[s]]

(***************************************************************************)
(* The store under any sequence of save_to_database calls, each with what  *)
(* a fetch of a symbol of the universe returned.  MaxSaves bounds the      *)
(* writes.                                                                 *)
(***************************************************************************)
StoreInit ==
    /\ user_query = ""
    /\ sql_query = None
    /\ conversation_history = <<>>
    /\ current_stocks = <<>>
    /\ call = NoCall
    /\ stocks = {}
    /\ sqlite_sequence = 0
    /\ last_saved = <<>>
    /\ scrape = [pc |-> "idle"]
    /\ main_loop = NoLoop
    /\ chat_history = <<>>

SaveCall(symbol, info, answer) ==
    LET stock_data == fetch_stock_data_yfinance(symbol, info)
        saved == save_to_database(stock_data, answer)
    IN  /\ sqlite_sequence < MaxSaves
        /\ stocks' = saved.stocks
        /\ sqlite_sequence' = saved.sqlite_sequence
        /\ last_saved' = Remember(stock_data, saved)
        /\ call' = [op |-> "save_to_database",
                    stock_data |-> stock_data,
                    returned |-> saved.returned,
                    raised |-> saved.raised,
                    replaced |-> IF stock_data = None THEN {}
                                 ELSE {r \in stocks : r.symbol = stock_data[1].symbol}]
        /\ UNCHANGED <<classifyVars, conversation_history, current_stocks, scrape, frontVars>>

StoreNext ==
    \E k \in 1..Len(nse_stocks), info \in ProviderAnswers, answer \in DatabaseAnswers :
        SaveCall(nse_stocks[k], info, answer)

StoreSpec == StoreInit /\ [][StoreNext]_vars

(***************************************************************************)
(* C2.  After any sequence of save_to_database calls the table holds at    *)
(* most one row per symbol, and the row of every symbol saved with success *)
(* holds the field values of the latest successful save of that symbol.    *)
(***************************************************************************)
SavedFields ==
    {"symbol", "name", "sector", "industry", "market_cap", "pe_ratio", "pb_ratio",
     "roe", "debt_to_equity", "current_ratio", "revenue_growth",
     "net_profit_margin", "dividend_yield", "price", "volume"}

C2_OneRowLatestValues ==
    /\ \A r1, r2 \in stocks : r1.symbol = r2.symbol => r1 = r2
    /\ \A s \in DOMAIN last_saved :
           \E r \in stocks :
               /\ r.symbol = s
               /\ \A f \in SavedFields : r[f] = last_saved[s][f]

\* A successful save replaced a row of the same symbol with other values.
C2_Witness ==
    /\ call.op = "save_to_database"
    /\ call.returned
    /\ \E old \in call.replaced : old.pe_ratio # call.stock_data[1].pe_ratio

(***************************************************************************)
(* scrape_all_stocks.  scrape holds the locals of the run and where it     *)
(* stands: "attempt", about to run the try of line 188 for attempt number  *)
(* attempt of the symbol at batch_start + i; "rate_limit", at the sleep of *)
(* line 207; "batch_break", at the sleep of line 212; "done", returned.    *)
(* It also keeps, for the symbol being processed, the attempts made        *)
(* (tries), whether one succeeded, the failed counter when the symbol was  *)
(* begun, and the seconds slept since the latest attempt began (waited);   *)
(* and, for the run, the symbols whose retry loop has ended (processed).   *)
(* For the frame of a failed fetch it keeps whether the provider raised in *)
(* the latest attempt, in how many attempts for the symbol it raised, and  *)
(* the rows the table held for the symbol when the symbol was begun; and   *)
(* the number of rows the table held when the run began (rows_at_start).   *)
(***************************************************************************)
BatchSizes == {2, 10}
Delays == {1, 2}

ScrapeStocks == get_nse_top_stocks(DefaultCount)

\* The table a run finds: new, or left by an earlier run.
PriorStores ==
    {{}, insert_or_replace({}, 0, fetch_stock_data_yfinance(nse_stocks[1], InfoFull)[1])}

RowsOf(rows, symbol) == {r \in rows : r.symbol = symbol}

ScraperInit ==
    /\ user_query = ""
    /\ sql_query = None
    /\ conversation_history = <<>>
    /\ current_stocks = <<>>
    /\ call = NoCall
    /\ stocks \in PriorStores
    /\ sqlite_sequence = Cardinality(stocks)
    /\ last_saved = <<>>
    /\ main_loop = NoLoop
    /\ chat_history = <<>>
    /\ \E b \in BatchSizes, d \in Delays :
           scrape = [pc |-> "attempt", batch_size |-> b, delay |-> d,
                     batch_start |-> 0, i |-> 0, attempt |-> 0,
                     successful |-> 0, failed |-> 0,
                     tries |-> 0, succeeded |-> FALSE, failed_at_start |-> 0,
                     waited |-> 0, processed |-> <<>>,
                     provider_raised |-> FALSE, raised_tries |-> 0,
                     rows_before |-> RowsOf(stocks, ScrapeStocks[1]),
                     rows_at_start |-> Cardinality(stocks)]

\* How the try of lines 188-204 ends: the if branch, the else branch, the handler.
attempt_outcome(stock_data, saved) ==
    IF stock_data # None /\ saved.raised THEN "exception"
    ELSE IF stock_data # None /\ saved.returned THEN "success"
    ELSE "failed"

\* A plausible slip: the failure counted without looking at the attempt number.
failed_after_attempt_every_time(failed, attempt, outcome) ==
    IF outcome = "success" THEN failed ELSE failed + 1

\* A plausible slip: the handler without its else, so that an error raised in
\* the last attempt is not counted.
failed_after_attempt_handler_uncounted(failed, attempt, outcome) ==
    IF outcome = "failed" /\ attempt = max_retries - 1 THEN failed + 1 ELSE failed

\* failed after one attempt (lines 195-196 and 201-204)
failed_after_attempt(failed, attempt, outcome) ==
    IF outcome = "failed"
    THEN (IF attempt = max_retries - 1 THEN failed + 1 ELSE failed)
    ELSE IF outcome = "exception"
    THEN (IF attempt < max_retries - 1 THEN failed ELSE failed + 1)
    ELSE failed

\* seconds slept inside one attempt (line 202)
retry_sleep(attempt, outcome, delay) ==
    IF outcome = "exception" /\ attempt < max_retries - 1 THEN delay * 2 ELSE 0

Attempt(info, answer) ==
    LET symbol == ScrapeStocks[scrape.batch_start + scrape.i + 1]
        stock_data == fetch_stock_data_yfinance(symbol, info)
        saved == save_to_database(stock_data, answer)
        outcome == attempt_outcome(stock_data, saved)
        last == outcome = "success" \/ scrape.attempt = max_retries - 1
    IN  /\ scrape.pc = "attempt"
        /\ stocks' = saved.stocks
        /\ sqlite_sequence' = saved.sqlite_sequence
        /\ last_saved' = Remember(stock_data, saved)
        /\ scrape' = [scrape EXCEPT
                        !.pc = IF last THEN "rate_limit" ELSE "attempt",
                        !.attempt = IF last THEN @ ELSE @ + 1,
                        !.successful = IF outcome = "success" THEN @ + 1 ELSE @,
                        !.failed = failed_after_attempt(@, scrape.attempt, outcome),
                        !.tries = @ + 1,
                        !.succeeded = outcome = "success",
                        !.waited = retry_sleep(scrape.attempt, outcome, scrape.delay),
                        !.processed = IF last THEN Append(@, symbol) ELSE @,
                        !.provider_raised = info.raises,
                        !.raised_tries = IF info.raises THEN @ + 1 ELSE @]
        /\ UNCHANGED <<classifyVars, engineVars, frontVars>>

\* the index, from 0, of the symbol in hand: batch_start + i
Position(s) == s.batch_start + s.i

BatchEnd ==
    IF scrape.batch_start + scrape.batch_size < Len(ScrapeStocks)
    THEN scrape.batch_start + scrape.batch_size ELSE Len(ScrapeStocks)

\* A plausible slip: a symbol that failed ends the run.
RateLimit_aborts_on_failure ==
    /\ scrape.pc = "rate_limit"
    /\ scrape' =
          IF ~scrape.succeeded
          THEN [scrape EXCEPT !.pc = "done", !.waited = @ + scrape.delay]
          ELSE IF scrape.batch_start + scrape.i + 1 < BatchEnd
          THEN [scrape EXCEPT !.pc = "attempt", !.i = @ + 1, !.attempt = 0,
                              !.tries = 0, !.succeeded = FALSE,
                              !.failed_at_start = scrape.failed,
                              !.waited = @ + scrape.delay,
                              !.provider_raised = FALSE, !.raised_tries = 0,
                              !.rows_before =
                                  RowsOf(stocks, ScrapeStocks[Position(scrape) + 2])]
          ELSE [scrape EXCEPT !.pc = IF BatchEnd < Len(ScrapeStocks)
                                     THEN "batch_break" ELSE "done",
                              !.waited = @ + scrape.delay]
    /\ UNCHANGED <<classifyVars, engineVars, storeVars, frontVars>>

\* time.sleep(delay), then the next symbol of the batch or the end of the batch
RateLimit ==
    /\ scrape.pc = "rate_limit"
    /\ scrape' =
          IF scrape.batch_start + scrape.i + 1 < BatchEnd
          THEN [scrape EXCEPT !.pc = "attempt", !.i = @ + 1, !.attempt = 0,
                              !.tries = 0, !.succeeded = FALSE,
                              !.failed_at_start = scrape.failed,
                              !.waited = @ + scrape.delay,
                              !.provider_raised = FALSE, !.raised_tries = 0,
                              !.rows_before =
                                  RowsOf(stocks, ScrapeStocks[Position(scrape) + 2])]
          ELSE [scrape EXCEPT !.pc = IF BatchEnd < Len(ScrapeStocks)
                                     THEN "batch_break" ELSE "done",
                              !.waited = @ + scrape.delay]
    /\ UNCHANGED <<classifyVars, engineVars, storeVars, frontVars>>

\* time.sleep(delay * 3), then the first symbol of the next batch
BatchBreak ==
    /\ scrape.pc = "batch_break"
    /\ scrape' = [scrape EXCEPT !.pc = "attempt",
                                !.batch_start = @ + scrape.batch_size,
                                !.i = 0, !.attempt = 0,
                                !.tries = 0, !.succeeded = FALSE,
                                !.failed_at_start = scrape.failed,
                                !.waited = @ + scrape.delay * 3,
                                !.provider_raised = FALSE, !.raised_tries = 0,
                                !.rows_before =
                                    RowsOf(stocks, ScrapeStocks[Position(scrape) + 2])]
    /\ UNCHANGED <<classifyVars, engineVars, storeVars, frontVars>>

ScraperNext ==
    \/ \E info \in ProviderAnswers, answer \in DatabaseAnswers : Attempt(info, answer)
    \/ RateLimit
    \/ BatchBreak

ScraperSpec == ScraperInit /\ [][ScraperNext]_vars

\* The run is one thread that nothing suspends: a step that can be taken is taken.
ScraperFairSpec == ScraperSpec /\ WF_vars(ScraperNext)

(***************************************************************************)
(* C9.  A symbol whose attempts all fail is attempted exactly 3 times, the *)
(* failed counter goes up by exactly one and only with the third attempt,  *)
(* and the run goes on with the next symbol.                               *)
(***************************************************************************)
C9_ThreeAttemptsOneFailure ==
    [][/\ scrape'.failed # scrape.failed =>
              /\ scrape.pc = "attempt"
              /\ scrape'.tries = 3
              /\ scrape'.failed = scrape.failed + 1
              /\ scrape'.pc = "rate_limit"
       /\ (scrape.pc = "attempt" /\ scrape'.pc = "attempt") =>
              /\ Position(scrape') = Position(scrape)
              /\ scrape'.tries < 3
              /\ scrape'.failed = scrape'.failed_at_start
       /\ (scrape.pc = "attempt" /\ scrape'.pc = "rate_limit" /\ ~scrape'.succeeded) =>
              /\ scrape'.tries = 3
              /\ scrape'.failed = scrape'.failed_at_start + 1
       /\ (scrape.pc \in {"rate_limit", "batch_break"} /\ scrape'.pc = "attempt") =>
              /\ Position(scrape') = Position(scrape) + 1
              /\ scrape'.tries = 0
       /\ (scrape.pc = "rate_limit" /\ scrape'.pc = "done") =>
              Position(scrape) + 1 = Len(ScrapeStocks)]_vars

\* A symbol that is not the last gave up after three failed attempts, and the
\* run stands at the first attempt of the symbol after it.
C9_Witness ==
    /\ scrape.pc = "attempt"
    /\ Position(scrape) >= 1
    /\ scrape.tries = 0
    /\ scrape.failed = Position(scrape)
    /\ scrape.successful = 0

(***************************************************************************)
(* C10.  Between two attempts for the same symbol, when the earlier one    *)
(* failed (no data, a failed save or an exception), a wait of delay x 2    *)
(* seconds happens before the next attempt starts.                         *)
(***************************************************************************)
C10_WaitBeforeEveryRetry ==
    (scrape.pc = "attempt" /\ scrape.attempt > 0) =>
        scrape.waited >= 2 * scrape.delay

(***************************************************************************)
(* C11.  Whatever the fetches and the saves do (no data, a failed save, a  *)
(* raised error), scrape_all_stocks eventually returns, having processed   *)
(* every entry of the universe once per list position in list order, and   *)
(* its two counts add up to the number of entries: a symbol that failed    *)
(* does not keep the symbols after it from being processed.                *)
(***************************************************************************)
C11_RunsToCompletion ==
    <>(/\ scrape.pc = "done"
       /\ scrape.processed = ScrapeStocks
       /\ scrape.successful + scrape.failed = Len(ScrapeStocks))

\* A finished run in which the first symbol failed and a later one was saved.
C11_Witness ==
    /\ scrape.pc = "done"
    /\ scrape.processed = ScrapeStocks
    /\ scrape.failed >= 1
    /\ scrape.successful >= 1
    /\ \A r \in stocks : r.symbol # ScrapeStocks[1]

(***************************************************************************)
(* search_stocks called alone, with one message for each template, on the  *)
(* table holding the first n sample rows, n from 0 to MaxRows.  The        *)
(* database answers "ok"; "connect_raises", sqlite3.connect fails and      *)
(* there is no connection; or "execute_raises", the connection is open and *)
(* cursor.execute fails (a missing table, a locked or unreadable file).    *)
(* Both errors are caught by the handler of line 79, which returns [].     *)
(***************************************************************************)
SearchAnswers == {"ok", "connect_raises", "execute_raises"}

\* The connection of line 58 when search_stocks returns: conn.close() is the
\* statement of line 76, after the fetch; the handler of lines 79-81 has none.
search_stocks_connection(answer) ==
    IF answer = "ok" THEN "closed"
    ELSE IF answer = "connect_raises" THEN "never_opened"
    ELSE "left_open"

SearchMessages ==
    {"cheap stocks", "high growth companies", "dividend income", "find safe stocks",
     "show big companies", "anything good"}

SearchInit ==
    /\ user_query \in SearchMessages
    /\ sql_query = None
    /\ conversation_history = <<>>
    /\ current_stocks = <<>>
    /\ call = NoCall
    /\ \E n \in 0..MaxRows : stocks = SampleStore(n) /\ sqlite_sequence = n
    /\ last_saved = <<>>
    /\ scrape = [pc |-> "idle"]
    /\ main_loop = NoLoop
    /\ chat_history = <<>>

SearchCall(answer) ==
    /\ call.op = "none"
    /\ \E results \in search_stocks(user_query, answer = "ok") :
           call' = [op |-> "search_stocks", user_query |-> user_query,
                    db_ok |-> answer = "ok", answer |-> answer, results |-> results,
                    connection |-> search_stocks_connection(answer)]
    /\ UNCHANGED <<classifyVars, conversation_history, current_stocks, storeVars, scrape, frontVars>>

SearchNext == \E answer \in SearchAnswers : SearchCall(answer)

SearchSpec == SearchInit /\ [][SearchNext]_vars

(***************************************************************************)
(* C12.  When the query runs, search_stocks returns exactly the rows that  *)
(* satisfy the filter of the message's template, a row with a NULL in a    *)
(* filtered column excluded, sorted by the template's order column in the  *)
(* template's direction and cut to the first 15, each row as the mapping   *)
(* of the column names to the row's values.  The filters are those of the  *)
(* requirement (C1_Groups, C1_Quality), not those of the model.            *)
(***************************************************************************)
C12_Columns ==
    {"id", "symbol", "name", "sector", "industry", "market_cap", "pe_ratio",
     "pb_ratio", "roe", "debt_to_equity", "current_ratio", "revenue_growth",
     "net_profit_margin", "dividend_yield", "price", "volume", "last_updated"}

C12_Template(message) ==
    LET hits == C1_Hits(message) IN
    IF hits = {} THEN C1_Quality
    ELSE C1_Groups[CHOOSE g \in hits : \A h \in hits : g <= h]

C12_Matching(rows, g) ==
    {r \in rows : \A c \in g.filter :
        /\ r[c[1]] # None
        /\ IF c[2] = "<" THEN r[c[1]][1] < c[3] ELSE r[c[1]][1] > c[3]}

\* a comes no later than b in the order of g
C12_NotAfter(a, b, g) ==
    IF g.direction = "ASC" THEN a[g.order_by][1] <= b[g.order_by][1]
    ELSE a[g.order_by][1] >= b[g.order_by][1]

C12_FilteredSortedFirst15 ==
    (call.op = "search_stocks" /\ call.db_ok) =>
        LET g == C12_Template(call.user_query)
            matching == C12_Matching(stocks, g)
            res == call.results
            returned == {res[j] : j \in 1..Len(res)}
        IN  /\ returned \subseteq matching
            /\ Cardinality(returned) = Len(res)
            /\ Len(res) = IF Cardinality(matching) < 15 THEN Cardinality(matching) ELSE 15
            /\ \A j, k \in 1..Len(res) : j < k => C12_NotAfter(res[j], res[k], g)
            /\ \A r \in matching \ returned : \A j \in 1..Len(res) : C12_NotAfter(res[j], r, g)
            /\ \A j \in 1..Len(res) : DOMAIN res[j] = C12_Columns

\* A query that matched more than 15 rows of a table in which a row has a NULL
\* in the filtered column.
C12_Witness ==
    /\ call.op = "search_stocks"
    /\ call.db_ok
    /\ Len(call.results) = 15
    /\ Cardinality(C12_Matching(stocks, C12_Template(call.user_query))) > 15
    /\ \E r \in stocks : r.market_cap = None
    /\ call.results[1].market_cap[1] > call.results[15].market_cap[1]

(***************************************************************************)
(* C13.  get_ai_response never raises and always hands its caller a        *)
(* string: the model's text, or, for any invocation error, a response      *)
(* without text included, the apology that embeds the error description.   *)
(***************************************************************************)
C13_AlwaysAString ==
    call.op = "process_user_message" =>
        /\ call.ai_response.is_str
        /\ call.ai.kind = "text" => call.ai_response.str = call.ai.text
        /\ call.ai.kind # "text" => Contains("Sorry", call.ai_response.str)

(***************************************************************************)
(* C14.  Every database connection a store operation opens is closed       *)
(* before the operation returns, on the error path as on the success path. *)
(***************************************************************************)
C14_ConnectionClosedOnReturn ==
    call.op = "search_stocks" => call.connection # "left_open"

(***************************************************************************)
(* main of Nlp_stock.py.  One step is one iteration of the while loop of   *)
(* line 280: input() gives a line, or raises EOFError, or the user         *)
(* interrupts (at the prompt, or while the hosted model is being called).  *)
(* main_loop keeps where the loop stands ("input": about to prompt;        *)
(* "exited": left by a break), the line read, the event and how the        *)
(* iteration ended.                                                        *)
(***************************************************************************)
IsSpace(c) == c \in {" ", "\t"}

RECURSIVE lstrip(_)
lstrip(s) == IF s # "" /\ IsSpace(Head(s)) THEN lstrip(Tail(s)) ELSE s

RECURSIVE rstrip(_)
rstrip(s) ==
    IF s # "" /\ IsSpace(SubSeq(s, Len(s), Len(s)))
    THEN rstrip(SubSeq(s, 1, Len(s) - 1)) ELSE s

\* str.strip()
strip(s) == rstrip(lstrip(s))

\* A plausible slip: the command compared as typed.
is_quit_command_case_sensitive(user_input) ==
    user_input \in {"/quit", "/exit", "bye"}

\* user_input.lower() in ['/quit', '/exit', 'bye']
is_quit_command(user_input) ==
    lower(user_input) \in {"/quit", "/exit", "bye"}

\* A plausible slip: an input that starts with a slash and is no known
\* command is answered as a command and dropped.
dispatch_drops_unknown_commands(user_input) ==
    IF user_input = "" THEN "empty"
    ELSE IF is_quit_command(user_input) THEN "quit"
    ELSE IF lower(user_input) = "/clear" THEN "clear"
    ELSE IF lower(user_input) = "/stocks" THEN "stocks"
    ELSE IF Head(user_input) = "/" THEN "empty"
    ELSE "message"

\* The branch of lines 285-302 that the stripped input takes.
dispatch(user_input) ==
    IF user_input = "" THEN "empty"
    ELSE IF is_quit_command(user_input) THEN "quit"
    ELSE IF lower(user_input) = "/clear" THEN "clear"
    ELSE IF lower(user_input) = "/stocks" THEN "stocks"
    ELSE "message"

\* What show_current_stocks prints: one piece for each print of lines 244-253.
show_current_stocks ==
    IF current_stocks = <<>> THEN <<[line |-> "No stocks currently loaded"]>>
    ELSE LET n == Len(current_stocks)
             shown == SubSeq(current_stocks, 1, IF n < 10 THEN n ELSE 10)
         IN  <<[line |-> "Current stocks", count |-> n]>>
             \o [k \in 1..Len(shown) |->
                    [line |-> "stock", n |-> k, name |-> shown[k].name,
                     symbol |-> shown[k].symbol]]
             \o (IF n > 10 THEN <<[line |-> "... and more", count |-> n - 10]>>
                 ELSE <<>>)

\* KeyboardInterrupt while generate_content runs: it is no Exception, so it
\* leaves get_ai_response and process_user_message; the lookup has been done.
process_user_message_interrupted(user_message) ==
    LET needs == needs_stock_data(user_message)
        results == IF needs THEN search_stocks(user_message, TRUE) \cup
                                 search_stocks(user_message, FALSE)
                   ELSE {<<>>}
    IN  \E stock_data \in results :
            /\ current_stocks' = lookup_current_stocks(needs, stock_data, current_stocks)
            /\ conversation_history' = conversation_history
            /\ call' = [op |-> "interrupted", returned_calls |-> call.returned_calls,
                        turns_before |-> Len(conversation_history),
                        stocks_before |-> Len(current_stocks)]
            /\ UNCHANGED <<classifyVars, storeVars, scrape>>

MainLines ==
    {"", "   ", "/quit", " /EXIT ", "Bye", "bye bye", "/quit now", "/clear",
     " /Clear", "/stocks", "/STOCKS ", "show big companies"}

\* The hosted model in a session of main: a text, or a response without text.
MainOutcomes == {AIText("Sure."), AINoText}

MainEvents == {"line", "eof", "interrupt"}

MainInit ==
    /\ user_query = ""
    /\ sql_query = None
    /\ conversation_history = <<>>
    /\ current_stocks = <<>>
    /\ call = NoCall
    /\ stocks = SampleStore(MaxRows)
    /\ sqlite_sequence = MaxRows
    /\ last_saved = <<>>
    /\ scrape = [pc |-> "idle"]
    /\ main_loop = [pc |-> "input", line |-> "", event |-> "start", handled |-> "start"]
    /\ chat_history = <<>>

Stay(line, event, handled) ==
    main_loop' = [pc |-> "input", line |-> line, event |-> event, handled |-> handled]

Break(line, event, handled) ==
    main_loop' = [pc |-> "exited", line |-> line, event |-> event, handled |-> handled]

MainIteration(line, event) ==
    LET user_input == strip(line) IN
    /\ main_loop.pc = "input"
    /\ chat_history' = chat_history
    /\ IF event = "interrupt" /\ line = ""
       THEN \* KeyboardInterrupt out of input(): lines 304-306
            /\ Break(line, event, "interrupt")
            /\ UNCHANGED <<classifyVars, engineVars, storeVars, scrape>>
       ELSE IF event = "eof"
       THEN \* EOFError out of input(): lines 307-308
            /\ line = ""
            /\ Stay(line, event, "error")
            /\ UNCHANGED <<classifyVars, engineVars, storeVars, scrape>>
       ELSE IF dispatch(user_input) = "empty"
       THEN /\ event = "line"
            /\ Stay(line, event, "empty")
            /\ UNCHANGED <<classifyVars, engineVars, storeVars, scrape>>
       ELSE IF dispatch(user_input) = "quit"
       THEN /\ event = "line"
            /\ Break(line, event, "quit")
            /\ UNCHANGED <<classifyVars, engineVars, storeVars, scrape>>
       ELSE IF dispatch(user_input) = "clear"
       THEN /\ event = "line"
            /\ clear_conversation
            /\ Stay(line, event, "clear")
       ELSE IF dispatch(user_input) = "stocks"
       THEN /\ event = "line"
            /\ call' = [op |-> "show_current_stocks", printed |-> show_current_stocks,
                        returned_calls |-> call.returned_calls,
                        turns_before |-> Len(conversation_history),
                        stocks_before |-> Len(current_stocks)]
            /\ Stay(line, event, "stocks")
            /\ UNCHANGED <<classifyVars, conversation_history, current_stocks,
                           storeVars, scrape>>
       ELSE /\ Len(conversation_history) <= MaxTurns
            /\ IF event = "interrupt"
               THEN /\ process_user_message_interrupted(user_input)
                    /\ Break(line, event, "interrupt")
               ELSE /\ process_user_message(user_input, MainOutcomes)
                    \* a TypeError out of simulate_typing: lines 307-308
                    /\ Stay(line, event, IF call'.returned THEN "message" ELSE "error")

MainNext == \E line \in MainLines, event \in MainEvents : MainIteration(line, event)

MainSpec == MainInit /\ [][MainNext]_vars

(***************************************************************************)
(* C15.  The command-line loop ends only when the input, trimmed and       *)
(* lower-cased, is /quit, /exit or bye, or when an interrupt arrives;      *)
(* after any other input, and after an error raised while an input is      *)
(* handled, the loop is still running and prompts again.                   *)
(***************************************************************************)
C15_IsQuitWord(raw) ==
    \E w \in {"/quit", "/exit", "bye"}, i \in 1..Len(raw) :
        /\ i + Len(w) - 1 <= Len(raw)
        /\ SubSeq(lower(raw), i, i + Len(w) - 1) = w
        /\ \A j \in (1..Len(raw)) \ (i..(i + Len(w) - 1)) :
               SubSeq(raw, j, j) \in {" ", "\t"}

C15_LoopEndsOnlyOnQuit ==
    [][main_loop.pc = "input" =>
          /\ main_loop'.pc \in {"input", "exited"}
          /\ main_loop'.pc = "exited" <=>
                 \/ main_loop'.event = "interrupt"
                 \/ main_loop'.event = "line" /\ C15_IsQuitWord(main_loop'.line)
          /\ main_loop'.handled = "error" => main_loop'.pc = "input"]_vars

\* The engine raised while a message was handled, and the loop prompts again.
C15_Witness ==
    /\ main_loop.pc = "input"
    /\ main_loop.handled = "error"
    /\ call.op = "process_user_message"
    /\ ~call.returned
    /\ call.turns_before = 1

(***************************************************************************)
(* The web page of streamlit.py.  One step is one run of the script for    *)
(* one interaction of the session: a question submitted to the chat input, *)
(* a click on Clear Context, a click on Show Current Stocks.  The session  *)
(* keeps the engine and chat_history from run to run; it is idle between   *)
(* two runs.  A run in which process_user_message raises ends at line 53.  *)
(***************************************************************************)
WebMessages == {"find safe stocks", "BUY", "tell me a joke"}

\* A plausible slip: the newest pair put first, as the page displays them.
chat_history_append_newest_first(history, user_input, response) ==
    <<(<<user_input, response>>)>> \o history

\* st.session_state.chat_history.append((user_input, response))
chat_history_append(history, user_input, response) ==
    Append(history, <<user_input, response>>)

WebInit ==
    /\ user_query = ""
    /\ sql_query = None
    /\ conversation_history = <<>>
    /\ current_stocks = <<>>
    /\ call = NoCall
    /\ stocks = SampleStore(MaxRows)
    /\ sqlite_sequence = MaxRows
    /\ last_saved = <<>>
    /\ scrape = [pc |-> "idle"]
    /\ main_loop = NoLoop
    /\ chat_history = <<>>

WebQuestion(user_input) ==
    /\ Len(conversation_history) <= MaxTurns
    /\ process_user_message(user_input, AIOutcomes)
    /\ chat_history' = IF call'.returned
                       THEN chat_history_append(chat_history, user_input, call'.response)
                       ELSE chat_history
    /\ UNCHANGED main_loop

WebClearContext ==
    /\ clear_conversation
    /\ chat_history' = <<>>
    /\ UNCHANGED main_loop

WebShowCurrentStocks ==
    /\ call' = [op |-> "show_current_stocks", printed |-> show_current_stocks,
                        returned_calls |-> call.returned_calls,
                turns_before |-> Len(conversation_history),
                stocks_before |-> Len(current_stocks)]
    /\ UNCHANGED <<classifyVars, conversation_history, current_stocks, storeVars,
                   scrape, frontVars>>

WebNext ==
    \/ \E user_input \in WebMessages : WebQuestion(user_input)
    \/ WebClearContext
    \/ WebShowCurrentStocks

WebSpec == WebInit /\ [][WebNext]_vars

(***************************************************************************)
(* C16.  Whenever a web session is idle, chat_history and the engine's     *)
(* conversation_history hold the same number of turns, with the same       *)
(* (user message, response) pairs in the same order, after any sequence of *)
(* submitted questions and Clear Context clicks.                           *)
(***************************************************************************)
C16_HistoriesAgree ==
    /\ Len(chat_history) = Len(conversation_history)
    /\ \A k \in 1..Len(chat_history) :
           chat_history[k] = <<conversation_history[k].user,
                               conversation_history[k].assistant>>

\* Two different turns recorded in both histories, one of them an apology.
C16_Witness ==
    /\ call.op = "process_user_message"
    /\ Len(chat_history) = 2
    /\ chat_history[1] # chat_history[2]
    /\ \E k \in 1..2 : Contains("Sorry", chat_history[k][2])

(***************************************************************************)
(* fetch_stock_data_yfinance called alone: the provider raises, or gives   *)
(* an info bundle in which each of the four fractions is missing, zero,    *)
(* positive or negative.                                                   *)
(***************************************************************************)
Fractions == {None, Some(0), Some(18), Some(-5)}

FetchInfos ==
    {ProviderRaises, InfoSparse} \cup
    {[InfoFull EXCEPT !.returnOnEquity = a, !.revenueGrowth = b,
                      !.profitMargins = c, !.dividendYield = d] :
        a \in Fractions, b \in Fractions, c \in Fractions, d \in Fractions}

FetchCall(symbol, info) ==
    /\ call.op = "none"
    /\ call' = [op |-> "fetch_stock_data_yfinance", symbol |-> symbol, info |-> info,
                stock_data |-> fetch_stock_data_yfinance(symbol, info)]
    /\ UNCHANGED <<classifyVars, conversation_history, current_stocks, storeVars,
                   scrape, frontVars>>

FetchNext ==
    \E k \in 1..Len(nse_stocks), info \in FetchInfos : FetchCall(nse_stocks[k], info)

FetchSpec == StoreInit /\ [][FetchNext]_vars

(***************************************************************************)
(* C17.  fetch_stock_data_yfinance multiplies each of roe, revenue_growth, *)
(* net_profit_margin and dividend_yield by 100 exactly when the provider's *)
(* value is present and not zero (0.18 becomes 18); a missing value stays  *)
(* missing, a value of exactly 0 stays 0, and no other field is rescaled.  *)
(***************************************************************************)
C17_Percentages ==
    <<(<<"roe", "returnOnEquity">>), <<"revenue_growth", "revenueGrowth">>,
      <<"net_profit_margin", "profitMargins">>, <<"dividend_yield", "dividendYield">> >>

C17_Plain ==
    <<(<<"market_cap", "marketCap">>), <<"pb_ratio", "priceToBook">>,
      <<"debt_to_equity", "debtToEquity">>, <<"current_ratio", "currentRatio">>,
      <<"volume", "volume">> >>

C17_PercentWhenNonZero ==
    (call.op = "fetch_stock_data_yfinance" /\ call.stock_data # None) =>
        LET d == call.stock_data[1]
            info == call.info
        IN  /\ \A k \in 1..Len(C17_Percentages) :
                   LET got == d[C17_Percentages[k][1]]
                       raw == info[C17_Percentages[k][2]]
                   IN  /\ raw = None => got = None
                       /\ raw = <<0>> => got = <<0>>
                       /\ (raw # None /\ raw # <<0>>) => got = <<100 * raw[1]>>
            /\ \A k \in 1..Len(C17_Plain) : d[C17_Plain[k][1]] = info[C17_Plain[k][2]]
            /\ d.pe_ratio \in {info.forwardPE, info.trailingPE}
            /\ d.price \in {info.currentPrice, info.regularMarketPrice}

\* A return on equity of 0.18 stored as 18, by the side of a dividend yield of
\* exactly 0 and of a missing revenue growth.
C17_Witness ==
    /\ call.op = "fetch_stock_data_yfinance"
    /\ call.stock_data # None
    /\ call.info.returnOnEquity = <<18>>
    /\ call.stock_data[1].roe = <<1800>>
    /\ call.info.dividendYield = <<0>>
    /\ call.stock_data[1].dividend_yield = <<0>>
    /\ call.info.revenueGrowth = None
    /\ call.stock_data[1].revenue_growth = None
    /\ call.info.profitMargins = <<(-5)>>

HistoryNext ==
    \/ \E m \in PromptMessages :
           /\ Len(conversation_history) <= MaxPromptTurns
           /\ process_user_message(m, {AIText("Try TCS."), AINoText})
           /\ UNCHANGED frontVars
    \/ clear_conversation /\ UNCHANGED frontVars

HistorySpec == Init /\ [][HistoryNext]_vars

(***************************************************************************)
(* C19.  Between two clears conversation_history is append-only: every     *)
(* process_user_message call that returns appends exactly one turn at the  *)
(* end and leaves the earlier turns as they were, so after n such calls    *)
(* since the last clear the history holds exactly n turns in call order;   *)
(* it is not cut to the 4 turns of the prompt.                             *)
(***************************************************************************)
C19_AppendOnly ==
    [][call'.op = "process_user_message" =>
          /\ call'.returned =>
                 /\ Len(conversation_history') = Len(conversation_history) + 1
                 /\ conversation_history'[Len(conversation_history')] =
                        [user |-> call'.user_message, assistant |-> call'.response]
          /\ \A k \in 1..Len(conversation_history) :
                 /\ k <= Len(conversation_history')
                 /\ conversation_history'[k] = conversation_history[k]
          /\ Len(conversation_history') = call'.returned_calls]_vars

\* The sixth call in a row that returned, the turns of the first five in place.
C19_Witness ==
    /\ call.op = "process_user_message"
    /\ call.returned
    /\ call.returned_calls = 6
    /\ Len(conversation_history) = 6
    /\ conversation_history[1].user # conversation_history[2].user

(***************************************************************************)
(* C20.  In scrape_all_stocks an attempt whose fetch yields no data writes *)
(* nothing: the table is after the attempt what it was before it.  So a    *)
(* symbol whose fetches all fail keeps the row it had, unchanged, and gets *)
(* no row, and no row of nulls, if it had none.                            *)
(***************************************************************************)
C20_FailedFetchWritesNothing ==
    [][scrape.pc = "attempt" =>
          /\ scrape'.provider_raised =>
                 /\ stocks' = stocks
                 /\ sqlite_sequence' = sqlite_sequence
          /\ (scrape'.pc = "rate_limit" /\ scrape'.raised_tries = 3) =>
                 {r \in stocks' : r.symbol = ScrapeStocks[Position(scrape) + 1]}
                     = scrape.rows_before]_vars

\* A symbol that an earlier run had stored gave no data in any of its three
\* attempts, and its row is the one it had.
C20_Witness ==
    /\ scrape.pc = "rate_limit"
    /\ scrape.raised_tries = 3
    /\ scrape.rows_before # {}
    /\ {r \in stocks : r.symbol = ScrapeStocks[Position(scrape) + 1]} = scrape.rows_before

(***************************************************************************)
(* C21.  After scrape_all_stocks has run to completion on a store that was *)
(* empty, the store holds one row for each successful fetch-and-save       *)
(* cycle: the number of rows of the stocks table is the success count      *)
(* returned.                                                               *)
(***************************************************************************)
C21_RowsEqualSuccessCount ==
    (scrape.pc = "done" /\ scrape.rows_at_start = 0) =>
        Cardinality(stocks) = scrape.successful

(***************************************************************************)
(* C22.  In the command-line loop an empty input and the commands /clear,  *)
(* /stocks, /quit, /exit and bye, matched after trimming and lower-casing, *)
(* never invoke process_user_message and never append a turn; every other  *)
(* input, an unknown command that starts with a slash included, is passed  *)
(* trimmed to process_user_message as a question.                          *)
(***************************************************************************)
C22_Blank(raw) == \A j \in 1..Len(raw) : SubSeq(raw, j, j) \in {" ", "\t"}

\* text is raw without the white space around it
C22_Trimmed(raw, text) ==
    \E i \in 1..(Len(raw) + 1), j \in 0..Len(raw) :
        /\ SubSeq(raw, i, j) = text
        /\ C22_Blank(SubSeq(raw, 1, i - 1))
        /\ C22_Blank(SubSeq(raw, j + 1, Len(raw)))
        /\ i <= j => ~C22_Blank(SubSeq(raw, i, i)) /\ ~C22_Blank(SubSeq(raw, j, j))

C22_IsCommand(raw) ==
    \/ C22_Blank(raw)
    \/ \E w \in {"/clear", "/stocks", "/quit", "/exit", "bye"} :
           C22_Trimmed(lower(raw), w)

C22_OnlyQuestionsReachTheEngine ==
    [][(main_loop.pc = "input" /\ main_loop'.event = "line") =>
          IF C22_IsCommand(main_loop'.line)
          THEN /\ main_loop'.handled \notin {"message", "error"}
               /\ call'.op = "process_user_message" => call' = call
               /\ Len(conversation_history') <= Len(conversation_history)
          ELSE /\ main_loop'.handled \in {"message", "error"}
               /\ call'.op = "process_user_message"
               /\ C22_Trimmed(main_loop'.line, call'.user_message)
               /\ call'.turns_before = Len(conversation_history)]_vars

\* An unknown command that starts with a slash was answered as a question.
C22_Witness ==
    /\ main_loop.pc = "input"
    /\ main_loop.event = "line"
    /\ main_loop.line = "/quit now"
    /\ main_loop.handled = "message"
    /\ call.op = "process_user_message"
    /\ call.user_message = "/quit now"
    /\ Len(conversation_history) = call.turns_before + 1

(***************************************************************************)
(* C23.  At every point of a scrape_all_stocks run each list position      *)
(* already finished has added exactly one to exactly one of the two        *)
(* counters (a success ends the attempts for the position and is not also  *)
(* counted as a failure), so on return successful + failed is the number   *)
(* of entries of the universe list.                                        *)
(***************************************************************************)
C23_OneCountPerPosition ==
    [][/\ Len(scrape'.processed) = Len(scrape.processed) + 1 =>
              \/ /\ scrape'.successful = scrape.successful + 1
                 /\ scrape'.failed = scrape.failed
                 /\ scrape'.pc = "rate_limit"
              \/ /\ scrape'.successful = scrape.successful
                 /\ scrape'.failed = scrape.failed + 1
       /\ Len(scrape'.processed) = Len(scrape.processed) =>
              /\ scrape'.successful = scrape.successful
              /\ scrape'.failed = scrape.failed
       /\ Len(scrape'.processed) \in {Len(scrape.processed), Len(scrape.processed) + 1}
       /\ scrape'.successful + scrape'.failed = Len(scrape'.processed)
       /\ scrape'.pc = "done" =>
              scrape'.successful + scrape'.failed = Len(ScrapeStocks)]_vars

\* In the middle of a run: one position saved, the other given up after a
\* third attempt in which the provider answered and the save failed or raised.
C23_Witness ==
    /\ scrape.pc = "rate_limit"
    /\ Len(scrape.processed) = 2
    /\ scrape.successful = 1
    /\ scrape.failed = 1
    /\ scrape.tries = 3
    /\ ~scrape.succeeded
    /\ ~scrape.provider_raised
    /\ scrape.waited = 0
    /\ Cardinality(stocks) = scrape.rows_at_start + 1

(***************************************************************************)
(* C24.  In every reachable engine state, after any sequence of            *)
(* process_user_message, show_current_stocks and clear_conversation calls, *)
(* current_stocks holds at most 15 rows, so the note of                    *)
(* show_current_stocks about the rows it does not list never counts more   *)
(* than 5.                                                                 *)
(***************************************************************************)
C24_AtMostFifteen ==
    /\ Len(current_stocks) <= 15
    /\ call.op = "show_current_stocks" =>
           \A k \in 1..Len(call.printed) :
               call.printed[k].line = "... and more" =>
                   /\ call.printed[k].count <= 5
                   /\ call.printed[k].count = Len(current_stocks) - 10

\* show_current_stocks called with a result set that the LIMIT had cut.
C24_Witness ==
    /\ call.op = "show_current_stocks"
    /\ Len(current_stocks) = 15
    /\ Cardinality(C12_Matching(stocks, C12_Template("show big companies"))) > 15
    /\ \E k \in 1..Len(call.printed) :
           call.printed[k].line = "... and more" /\ call.printed[k].count = 5

=============================================================================
